---- MODULE Spec2Model ----
(***************************************************************************)
(* check_files of scripts/find_large_files.py (variant 1, prints to        *)
(* standard output) and scripts/find_large_files_v2.py (variant 2, writes  *)
(* to a report file).  One behaviour of the model is one call of           *)
(* check_files on a small directory tree.  File names and paths are        *)
(* sequences of characters, so that endswith and os.path.join are          *)
(* computed on the text as the code computes them.                         *)
(***************************************************************************)
EXTENDS Integers, Sequences, FiniteSets, TLC

VARIABLES
    variant,      \* 1: find_large_files.py, 2: find_large_files_v2.py
    roots,        \* argument roots: a sequence of paths
    warn_limit,   \* argument warn_limit
    fail_limit,   \* argument fail_limit
    fmode,        \* environment: which files cannot be opened / read
    pc,           \* position in check_files
    rootIdx,      \* index of the next root of "for root_dir in roots"
    stack,        \* os.walk: directories still to be listed
    root,         \* os.walk: directory yielded last
    dirs,         \* os.walk: the dirs list yielded last (pruned in place)
    files,        \* the files of root that "for file in files" has left
    handles,      \* scanned files whose handle is open, innermost last
    out_open,     \* variant 2: the report file handle is open
    stdout,       \* lines printed to standard output
    report,       \* lines written to the report file
    large_files,  \* the list of (lines, status, filepath) tuples
    emitIdx,      \* index of the next tuple of the final for loop
    walked,       \* history: directories yielded by os.walk, in order
    seen,         \* history: filepath of every file the inner loop reached
    opened,       \* history: filepath of every open() call on a scanned file
    appended      \* history: tuples in the order they were appended

vars == <<variant, roots, warn_limit, fail_limit, fmode, pc, rootIdx, stack,
          root, dirs, files, handles, out_open, stdout, report, large_files,
          emitIdx, walked, seen, opened, appended>>

----------------------------------------------------------------------------
(* Bounds of the model *)

MaxRoots == 2
MaxLimit == 2

----------------------------------------------------------------------------
(* Text *)

SEP == <<"/">>

S_node_modules == <<"n","o","d","e","_","m","o","d","u","l","e","s">>
S_git == <<".","g","i","t">>

\* the tuple of suffixes passed to file.endswith
SUFFIXES == << <<".","j","s">>, <<".","t","s">>, <<".","j","s","x">>,
               <<".","t","s","x">>, <<".","m","j","s">>, <<".","c","j","s">>,
               <<".","c","s","s">>, <<".","h","t","m","l">> >>

\* a matcher that looks at the first suffix of the tuple only
endswith_first(name, sufs) ==
    /\ Len(sufs[1]) <= Len(name)
    /\ SubSeq(name, Len(name) - Len(sufs[1]) + 1, Len(name)) = sufs[1]

\* str.endswith(tuple): some element of the tuple is a suffix of name
endswith(name, sufs) ==
    \E i \in 1..Len(sufs) :
        /\ Len(sufs[i]) <= Len(name)
        /\ SubSeq(name, Len(name) - Len(sufs[i]) + 1, Len(name)) = sufs[i]

\* os.path.join(a, b) for a relative b (posixpath)
join(a, b) ==
    IF a = <<>> THEN b
    ELSE IF a[Len(a)] = "/" THEN a \o b
    ELSE a \o SEP \o b

----------------------------------------------------------------------------
(* The directory tree the run scans *)

S_src == <<"s","r","c">>
S_lib == <<"l","i","b">>
S_pkg == <<"p","k","g">>
S_nope == <<"n","o","p","e">>
F_a == <<"a",".","t","s">>
F_b == <<"b",".","j","s">>
F_c == <<"c",".","c","s","s">>
F_d == <<"d",".","p","y">>
F_h == <<"h",".","h","t","m","l">>
F_m == <<"m",".","j","s">>
F_p == <<"p",".","m","j","s">>

P_lib == join(S_src, S_lib)
P_nm == join(S_src, S_node_modules)
P_git == join(P_lib, S_git)
P_pkg == join(P_nm, S_pkg)

\* os.scandir of each directory: subdirectory names and file names, in order
Tree ==
    (S_src :> [dirs |-> <<S_lib, S_node_modules>>, files |-> <<F_a, F_d>>]) @@
    (P_lib :> [dirs |-> <<S_git>>, files |-> <<F_b, F_c>>]) @@
    (P_git :> [dirs |-> <<>>, files |-> <<F_h>>]) @@
    (P_nm :> [dirs |-> <<S_pkg>>, files |-> <<F_m>>]) @@
    (P_pkg :> [dirs |-> <<>>, files |-> <<F_p>>])

\* len(f.readlines()) of each file
FileLines ==
    (join(S_src, F_a) :> 2) @@ (join(S_src, F_d) :> 3) @@
    (join(P_lib, F_b) :> 3) @@ (join(P_lib, F_c) :> 3) @@
    (join(P_git, F_h) :> 3) @@ (join(P_nm, F_m) :> 3) @@
    (join(P_pkg, F_p) :> 1)

\* the roots a call may name: a tree, a tree inside it, a dependency-cache
\* directory, and a path that does not exist
RootChoices == {S_src, P_lib, P_nm, S_nope}

\* the files whose open() or readlines() may raise in a run, and a file no
\* run may open (no read permission)
FailCandidates == {join(S_src, F_a), join(P_lib, F_b)}
Locked == {join(S_src, F_d)}
Modes == {"ok", "noopen", "noread"}

Mode(p) ==
    IF p \in DOMAIN fmode THEN fmode[p]
    ELSE IF p \in Locked THEN "noopen"
    ELSE "ok"

BoundedSeq(S, n) == UNION {[1..k -> S] : k \in 0..n}

----------------------------------------------------------------------------
(* Output *)

Line(kind, status, count, path) ==
    [kind |-> kind, status |-> status, count |-> count, path |-> path]

HeaderLine == Line("header", "", 0, <<>>)
BlankLine == Line("blank", "", 0, <<>>)
ResultsLine == Line("results", "", 0, <<>>)
ErrorLine(p) == Line("error", "", 0, p)
FindingLine(t) == Line("finding", t[2], t[1], t[3])

\* variant 2 with a print call left in place of out.write
write_print(v, so, rp, ls) == [stdout |-> so \o ls, report |-> rp]

\* print(...) in variant 1, out.write(...) in variant 2
write(v, so, rp, ls) ==
    IF v = 1 THEN [stdout |-> so \o ls, report |-> rp]
    ELSE [stdout |-> so, report |-> rp \o ls]

\* an except clause that prints the error in both variants
report_error_print(v, so, rp, p) ==
    [stdout |-> Append(so, ErrorLine(p)), report |-> rp]

\* the except clause: one "Error reading <filepath>: <e>" line
report_error(v, so, rp, p) == write(v, so, rp, <<ErrorLine(p)>>)

----------------------------------------------------------------------------
(* Pure steps of the scan *)

\* list.remove(x) guarded by "x in list": drops the first occurrence
RECURSIVE remove(_, _)
remove(s, x) ==
    IF s = <<>> THEN <<>>
    ELSE IF Head(s) = x THEN Tail(s)
    ELSE <<Head(s)>> \o remove(Tail(s), x)

\* a walk that prunes the dependency cache and forgets version control
prune_node_modules_only(ds) == remove(ds, S_node_modules)

prune(ds) == remove(remove(ds, S_node_modules), S_git)

\* a warn test with >= for >
exceeds_or_equal(lines, limit) == lines >= limit

exceeds(lines, limit) == lines > limit

\* a classification with the two labels exchanged
status_of_swapped(lines, limit) == IF lines > limit THEN "WARN" ELSE "FAIL"

\* a classification with >= for >
status_of_or_equal(lines, limit) == IF lines >= limit THEN "FAIL" ELSE "WARN"

status_of(lines, limit) == IF lines > limit THEN "FAIL" ELSE "WARN"

\* the body of the with block after readlines()
record(lf, lines, path, warn, fail) ==
    IF exceeds(lines, warn)
    THEN Append(lf, <<lines, status_of(lines, fail), path>>)
    ELSE lf

\* an open() without a with block: the handle is never closed
release_leak(hs) == hs

\* leaving the with block closes the innermost handle
release(hs) == SubSeq(hs, 1, Len(hs) - 1)

\* a descending sort that reverses elements with equal keys (what sorting
\* ascending and then reversing the list does)
rank_ties_reversed(s, i) ==
    1 + Cardinality({j \in 1..Len(s) :
            s[j][1] > s[i][1] \/ (s[j][1] = s[i][1] /\ j > i)})

\* list.sort(reverse=True, key=lambda x: x[0]) is stable: s[i] comes after
\* the elements with a greater key and after the earlier ones with its key
rank(s, i) ==
    1 + Cardinality({j \in 1..Len(s) :
            s[j][1] > s[i][1] \/ (s[j][1] = s[i][1] /\ j < i)})

sort_desc(s) ==
    [k \in 1..Len(s) |-> s[CHOOSE i \in 1..Len(s) : rank(s, i) = k]]

----------------------------------------------------------------------------
(* The call *)

Init ==
    /\ variant \in {1, 2}
    /\ roots \in BoundedSeq(RootChoices, MaxRoots)
    /\ warn_limit \in 0..MaxLimit
    /\ fail_limit \in 0..MaxLimit
    /\ fmode \in [FailCandidates -> Modes]
    /\ pc = "start"
    /\ rootIdx = 1
    /\ stack = <<>>
    /\ root = <<>>
    /\ dirs = <<>>
    /\ files = <<>>
    /\ handles = <<>>
    /\ out_open = FALSE
    /\ stdout = <<>>
    /\ report = <<>>
    /\ large_files = <<>>
    /\ emitIdx = 1
    /\ walked = <<>>
    /\ seen = <<>>
    /\ opened = <<>>
    /\ appended = <<>>

args == <<variant, roots, warn_limit, fail_limit, fmode>>
hist == <<walked, seen, opened, appended>>
walk == <<stack, root, dirs>>

\* open(output_file, "w") in variant 2, then the header line
Start ==
    /\ pc = "start"
    /\ out_open' = (variant = 2)
    /\ LET o == write(variant, stdout, <<>>, <<HeaderLine>>)
       IN stdout' = o.stdout /\ report' = o.report
    /\ pc' = "roots"
    /\ UNCHANGED <<args, hist, walk, rootIdx, files, handles, large_files, emitIdx>>

\* for root_dir in roots: os.walk(root_dir) starts
NextRoot ==
    /\ pc = "roots"
    /\ rootIdx <= Len(roots)
    /\ stack' = <<roots[rootIdx]>>
    /\ rootIdx' = rootIdx + 1
    /\ pc' = "walk"
    /\ UNCHANGED <<args, hist, root, dirs, files, handles, out_open, stdout,
                   report, large_files, emitIdx>>

\* os.walk: scandir fails on a path that is no directory; nothing is yielded
WalkMissing ==
    /\ pc = "walk"
    /\ stack # <<>>
    /\ Head(stack) \notin DOMAIN Tree
    /\ stack' = Tail(stack)
    /\ UNCHANGED <<args, hist, pc, rootIdx, root, dirs, files, handles,
                   out_open, stdout, report, large_files, emitIdx>>

\* os.walk yields (root, dirs, files); the loop body prunes dirs in place
WalkYield ==
    /\ pc = "walk"
    /\ stack # <<>>
    /\ Head(stack) \in DOMAIN Tree
    /\ root' = Head(stack)
    /\ stack' = Tail(stack)
    /\ dirs' = prune(Tree[Head(stack)].dirs)
    /\ files' = Tree[Head(stack)].files
    /\ walked' = Append(walked, Head(stack))
    /\ pc' = "files"
    /\ UNCHANGED <<args, seen, opened, appended, rootIdx, handles, out_open,
                   stdout, report, large_files, emitIdx>>

\* the file loop is over: os.walk resumes and descends into what dirs holds
WalkResume ==
    /\ pc = "files"
    /\ files = <<>>
    /\ stack' = [i \in 1..Len(dirs) |-> join(root, dirs[i])] \o stack
    /\ pc' = "walk"
    /\ UNCHANGED <<args, hist, rootIdx, root, dirs, files, handles, out_open,
                   stdout, report, large_files, emitIdx>>

\* os.walk(root_dir) is exhausted
WalkDone ==
    /\ pc = "walk"
    /\ stack = <<>>
    /\ pc' = "roots"
    /\ UNCHANGED <<args, hist, walk, rootIdx, files, handles, out_open,
                   stdout, report, large_files, emitIdx>>

\* if not file.endswith(...): continue
FileSkip ==
    /\ pc = "files"
    /\ files # <<>>
    /\ ~endswith(Head(files), SUFFIXES)
    /\ seen' = Append(seen, join(root, Head(files)))
    /\ files' = Tail(files)
    /\ UNCHANGED <<args, walked, opened, appended, pc, rootIdx, walk, handles,
                   out_open, stdout, report, large_files, emitIdx>>

\* open(filepath) succeeds: the with block is entered
FileOpen ==
    /\ pc = "files"
    /\ files # <<>>
    /\ endswith(Head(files), SUFFIXES)
    /\ LET filepath == join(root, Head(files)) IN
        /\ Mode(filepath) # "noopen"
        /\ seen' = Append(seen, filepath)
        /\ opened' = Append(opened, filepath)
        /\ handles' = Append(handles, filepath)
    /\ pc' = "read"
    /\ UNCHANGED <<args, walked, appended, rootIdx, walk, files, out_open,
                   stdout, report, large_files, emitIdx>>

\* open(filepath) raises: the except clause reports it
FileOpenFail ==
    /\ pc = "files"
    /\ files # <<>>
    /\ endswith(Head(files), SUFFIXES)
    /\ LET filepath == join(root, Head(files)) IN
        /\ Mode(filepath) = "noopen"
        /\ seen' = Append(seen, filepath)
        /\ opened' = Append(opened, filepath)
        /\ LET o == report_error(variant, stdout, report, filepath)
           IN stdout' = o.stdout /\ report' = o.report
    /\ files' = Tail(files)
    /\ UNCHANGED <<args, walked, appended, pc, rootIdx, walk, handles,
                   out_open, large_files, emitIdx>>

\* a scan that writes each Finding line as soon as the file is classified
FileRead_streaming ==
    /\ pc = "read"
    /\ LET filepath == join(root, Head(files))
           lf == record(large_files, FileLines[filepath], filepath,
                        warn_limit, fail_limit)
           o == write(variant, stdout, report,
                      IF lf = large_files THEN <<>>
                      ELSE <<FindingLine(lf[Len(lf)])>>)
       IN
        /\ Mode(filepath) = "ok"
        /\ large_files' = lf
        /\ appended' = record(appended, FileLines[filepath], filepath,
                              warn_limit, fail_limit)
        /\ stdout' = o.stdout
        /\ report' = o.report
    /\ handles' = release(handles)
    /\ files' = Tail(files)
    /\ pc' = "files"
    /\ UNCHANGED <<args, walked, seen, opened, rootIdx, walk, out_open, emitIdx>>

\* readlines() succeeds: classify, append, leave the with block
FileRead ==
    /\ pc = "read"
    /\ LET filepath == join(root, Head(files)) IN
        /\ Mode(filepath) = "ok"
        /\ large_files' = record(large_files, FileLines[filepath], filepath,
                                 warn_limit, fail_limit)
        /\ appended' = record(appended, FileLines[filepath], filepath,
                              warn_limit, fail_limit)
    /\ handles' = release(handles)
    /\ files' = Tail(files)
    /\ pc' = "files"
    /\ UNCHANGED <<args, walked, seen, opened, rootIdx, walk, out_open,
                   stdout, report, emitIdx>>

\* readlines() raises: the with block closes the handle, except reports it
FileReadFail ==
    /\ pc = "read"
    /\ LET filepath == join(root, Head(files)) IN
        /\ Mode(filepath) = "noread"
        /\ LET o == report_error(variant, stdout, report, filepath)
           IN stdout' = o.stdout /\ report' = o.report
    /\ handles' = release(handles)
    /\ files' = Tail(files)
    /\ pc' = "files"
    /\ UNCHANGED <<args, hist, rootIdx, walk, out_open, large_files, emitIdx>>

\* large_files.sort(...), then "\nResults:"
SortResults ==
    /\ pc = "roots"
    /\ rootIdx > Len(roots)
    /\ large_files' = sort_desc(large_files)
    /\ LET o == write(variant, stdout, report, <<BlankLine, ResultsLine>>)
       IN stdout' = o.stdout /\ report' = o.report
    /\ emitIdx' = 1
    /\ pc' = "emit"
    /\ UNCHANGED <<args, hist, rootIdx, walk, files, handles, out_open>>

\* for count, status, path in large_files: one line
EmitFinding ==
    /\ pc = "emit"
    /\ emitIdx <= Len(large_files)
    /\ LET o == write(variant, stdout, report,
                      <<FindingLine(large_files[emitIdx])>>)
       IN stdout' = o.stdout /\ report' = o.report
    /\ emitIdx' = emitIdx + 1
    /\ UNCHANGED <<args, hist, pc, rootIdx, walk, files, handles, out_open,
                   large_files>>

\* the loop ends; variant 2 leaves "with open(output_file...)"
Finish ==
    /\ pc = "emit"
    /\ emitIdx > Len(large_files)
    /\ out_open' = FALSE
    /\ pc' = "done"
    /\ UNCHANGED <<args, hist, rootIdx, walk, files, handles, stdout, report,
                   large_files, emitIdx>>

Next ==
    \/ Start
    \/ NextRoot
    \/ WalkMissing
    \/ WalkYield
    \/ WalkResume
    \/ WalkDone
    \/ FileSkip
    \/ FileOpen
    \/ FileOpenFail
    \/ FileRead
    \/ FileReadFail
    \/ SortResults
    \/ EmitFinding
    \/ Finish

Spec == Init /\ [][Next]_vars

----------------------------------------------------------------------------
(* Vocabulary of the properties *)

Range(s) == {s[i] : i \in 1..Len(s)}
CountSeq(s, x) == Cardinality({i \in 1..Len(s) : s[i] = x})

\* the sink of the variant, and the stream the variant never writes
Sink == IF variant = 1 THEN stdout ELSE report
OtherSink == IF variant = 1 THEN report ELSE stdout

KindLines(s, k) == SelectSeq(s, LAMBDA l : l.kind = k)
PathsOf(ls) == [i \in 1..Len(ls) |-> ls[i].path]

HasSuffix(p, s) ==
    /\ Len(s) <= Len(p)
    /\ \A j \in 1..Len(s) : p[Len(p) - Len(s) + j] = s[j]
Recognized(p) == \E i \in 1..Len(SUFFIXES) : HasSuffix(p, SUFFIXES[i])

FirstSep(p) ==
    CHOOSE i \in 1..(Len(p) + 1) :
        /\ (i = Len(p) + 1 \/ p[i] = "/")
        /\ \A j \in 1..(i - 1) : p[j] # "/"
LastSep(p) ==
    CHOOSE i \in 0..Len(p) :
        /\ (i = 0 \/ p[i] = "/")
        /\ \A j \in (i + 1)..Len(p) : p[j] # "/"
DirOf(p) == SubSeq(p, 1, LastSep(p) - 1)

RECURSIVE Components(_)
Components(p) ==
    IF p = <<>> THEN <<>>
    ELSE <<SubSeq(p, 1, FirstSep(p) - 1)>>
         \o Components(SubSeq(p, FirstSep(p) + 1, Len(p)))

PrunedNames == {S_node_modules, S_git}
HasPrunedName(d) == \E c \in Range(Components(d)) : c \in PrunedNames

\* d is the directory r or lies below it; BelowPart is the path from r to d
Under(d, r) ==
    \/ d = r
    \/ Len(d) > Len(r) + 1 /\ SubSeq(d, 1, Len(r) + 1) = r \o SEP
BelowPart(d, r) == SubSeq(d, Len(r) + 2, Len(d))

FindingsOf(p) == SelectSeq(large_files, LAMBDA f : f[3] = p)
Visits(p) == CountSeq(seen, p)
ScannedFiles == DOMAIN FileLines
IsReadable(p) == Mode(p) = "ok"

\* the open() calls whose try statement is over
FinishedOpens ==
    IF pc = "read" THEN SubSeq(opened, 1, Len(opened) - 1) ELSE opened
FailedOpens == SelectSeq(FinishedOpens, LAMBDA p : ~IsReadable(p))

\* the tuples the readable files of ps yield, in order
RECURSIVE Expected(_)
Expected(ps) ==
    IF ps = <<>> THEN <<>>
    ELSE LET p == Head(ps)
             n == FileLines[p]
         IN (IF IsReadable(p) /\ n > warn_limit
             THEN << <<n, IF n > fail_limit THEN "FAIL" ELSE "WARN", p>> >>
             ELSE <<>>) \o Expected(Tail(ps))

ResultsEmitted ==
    \E l \in Range(stdout) \cup Range(report) : l.kind \in {"results", "finding"}
FindingEmitted ==
    \E l \in Range(stdout) \cup Range(report) : l.kind = "finding"

----------------------------------------------------------------------------
(* C1 *)

\* C1: every tuple of large_files has a line count above warn_limit, the
\* line count of its file, and the status FAIL exactly when the count is
\* above fail_limit and WARN otherwise; a file whose count is at most
\* warn_limit has no tuple.
C1_FindingInvariant ==
    /\ \A i \in 1..Len(large_files) :
        LET f == large_files[i] IN
        /\ f[1] > warn_limit
        /\ f[1] = FileLines[f[3]]
        /\ f[2] \in {"FAIL", "WARN"}
        /\ f[2] = "FAIL" <=> f[1] > fail_limit
    /\ \A p \in ScannedFiles :
        FileLines[p] <= warn_limit => FindingsOf(p) = <<>>

C1_Witness ==
    /\ pc = "done"
    /\ \E i, j \in 1..Len(large_files) :
        large_files[i][2] = "FAIL" /\ large_files[j][2] = "WARN"
    /\ \E p \in Range(opened) :
        IsReadable(p) /\ FileLines[p] <= warn_limit

----------------------------------------------------------------------------
(* C2 *)

\* C2 as stated: after a completed run every readable visited file with a
\* recognized extension and a line count above fail_limit has exactly one
\* tuple, and its status is FAIL (for every warn_limit and fail_limit).
C2_Original ==
    pc = "done" =>
        \A p \in Range(seen) :
            (Recognized(p) /\ IsReadable(p) /\ FileLines[p] > fail_limit) =>
                /\ Len(FindingsOf(p)) = 1
                /\ FindingsOf(p)[1][2] = "FAIL"

\* C2 amended: after a completed run a readable file with a recognized
\* extension and a line count above fail_limit has one tuple per visit of
\* the walk, each with status FAIL, when its count is also above
\* warn_limit, and no tuple when its count is at most warn_limit.
C2_FailPerVisit ==
    pc = "done" =>
        \A p \in ScannedFiles :
            (Recognized(p) /\ IsReadable(p) /\ FileLines[p] > fail_limit) =>
                /\ Len(FindingsOf(p)) =
                       (IF FileLines[p] > warn_limit THEN Visits(p) ELSE 0)
                /\ \A i \in 1..Len(FindingsOf(p)) :
                       FindingsOf(p)[i] = <<FileLines[p], "FAIL", p>>

C2_Witness ==
    /\ pc = "done"
    /\ fail_limit < warn_limit
    /\ \E i \in 1..Len(large_files) : large_files[i][2] = "FAIL"
    /\ \E p \in Range(opened) :
        /\ IsReadable(p)
        /\ FileLines[p] > fail_limit
        /\ FileLines[p] <= warn_limit

----------------------------------------------------------------------------
(* C3 *)

\* C3 as stated: after a completed run every readable visited file with a
\* recognized extension and a line count above warn_limit and at most
\* fail_limit has exactly one tuple, with status WARN, for every roots list.
C3_Original ==
    pc = "done" =>
        \A p \in Range(seen) :
            (/\ Recognized(p)
             /\ IsReadable(p)
             /\ FileLines[p] > warn_limit
             /\ FileLines[p] <= fail_limit) =>
                /\ Len(FindingsOf(p)) = 1
                /\ FindingsOf(p)[1][2] = "WARN"

\* C3 amended: after a completed run a readable file with a recognized
\* extension and a line count above warn_limit and at most fail_limit has
\* one tuple per visit of the walk, each with status WARN.
C3_WarnPerVisit ==
    pc = "done" =>
        \A p \in ScannedFiles :
            (/\ Recognized(p)
             /\ IsReadable(p)
             /\ FileLines[p] > warn_limit
             /\ FileLines[p] <= fail_limit) =>
                /\ Len(FindingsOf(p)) = Visits(p)
                /\ \A i \in 1..Len(FindingsOf(p)) :
                       FindingsOf(p)[i] = <<FileLines[p], "WARN", p>>

C3_Witness ==
    /\ pc = "done"
    /\ \E p \in ScannedFiles :
        /\ Len(FindingsOf(p)) = 2
        /\ FindingsOf(p)[1][2] = "WARN"

----------------------------------------------------------------------------
(* C4 *)

EmittedFindings == KindLines(Sink, "finding")
AppendedLines == [i \in 1..Len(appended) |-> FindingLine(appended[i])]
WithCount(ls, k) == SelectSeq(ls, LAMBDA l : l.count = k)

\* C4: the Finding lines written so far are in non-increasing order of line
\* count, and when the run is over the lines of each line count are the
\* tuples of that count in the order in which they were appended.
C4_StableDescending ==
    /\ \A i \in 1..(Len(EmittedFindings) - 1) :
        EmittedFindings[i].count >= EmittedFindings[i + 1].count
    /\ pc = "done" =>
        /\ Len(EmittedFindings) = Len(appended)
        /\ \A k \in {FileLines[p] : p \in ScannedFiles} :
            WithCount(EmittedFindings, k) = WithCount(AppendedLines, k)

C4_Witness ==
    /\ pc = "done"
    /\ large_files # appended
    /\ \E i, j \in 1..Len(EmittedFindings) :
        /\ i < j
        /\ EmittedFindings[i].count = EmittedFindings[j].count
        /\ EmittedFindings[i].path # EmittedFindings[j].path

----------------------------------------------------------------------------
(* C5 *)

\* C5 as stated: no directory the walk yields is, or lies inside, a
\* directory named node_modules or .git, and no file inside such a directory
\* is reached, opened or recorded, for every roots list.
C5_Original ==
    /\ \A d \in Range(walked) : ~HasPrunedName(d)
    /\ \A p \in Range(seen) \cup Range(opened) : ~HasPrunedName(DirOf(p))
    /\ \A i \in 1..Len(large_files) : ~HasPrunedName(DirOf(large_files[i][3]))

\* C5 amended: the walk of a root never descends into a subdirectory named
\* node_modules or .git: every directory yielded is a root or lies below a
\* root along a path with no component of these names, and every file
\* reached, opened or recorded lies directly in a yielded directory.
C5_PrunedBelowRoots ==
    /\ \A d \in Range(walked) :
        \E i \in 1..Len(roots) :
            /\ Under(d, roots[i])
            /\ d # roots[i] => ~HasPrunedName(BelowPart(d, roots[i]))
    /\ \A p \in Range(seen) : DirOf(p) \in Range(walked)
    /\ Range(opened) \subseteq Range(seen)
    /\ Range(handles) \subseteq Range(opened)
    /\ \A i \in 1..Len(large_files) : large_files[i][3] \in Range(opened)

C5_Witness ==
    /\ pc = "done"
    /\ roots = <<S_src>>
    /\ walked = <<S_src, P_lib>>

----------------------------------------------------------------------------
(* C6 *)

\* C6: the files opened are, in order, exactly the files reached whose
\* name ends with a recognized suffix, one open() per visit; a file with
\* another name has no handle, no tuple and no error line.
C6_OnlyRecognizedOpened ==
    /\ opened = SelectSeq(seen, Recognized)
    /\ \A p \in Range(seen) :
        ~Recognized(p) =>
            /\ p \notin Range(handles)
            /\ FindingsOf(p) = <<>>
            /\ \A l \in Range(stdout) \cup Range(report) : l.path # p

C6_Witness ==
    /\ pc = "done"
    /\ \E p \in Range(seen) : ~Recognized(p) /\ FileLines[p] > warn_limit
    /\ \E p \in Range(opened) : CountSeq(opened, p) = 2

----------------------------------------------------------------------------
(* C7 *)

\* C7: the error lines of the sink name, in order, exactly the files whose
\* open or read failed, one line each, and the other stream has none; a
\* failing file has no tuple; the tuples appended are exactly those of the
\* readable files opened so far, so a failing file leaves large_files as it
\* was and every readable file yields its tuple; and the run is never
\* stuck before it has emitted the results and ended.
C7_ErrorsSkipAndContinue ==
    /\ PathsOf(KindLines(Sink, "error")) = FailedOpens
    /\ KindLines(OtherSink, "error") = <<>>
    /\ \A p \in Range(opened) : ~IsReadable(p) => FindingsOf(p) = <<>>
    /\ appended = Expected(FinishedOpens)
    /\ pc \notin {"emit", "done"} => large_files = appended
    /\ Len(large_files) = Len(appended)
    /\ pc # "done" => ENABLED Next

C7_Witness ==
    /\ pc = "done"
    /\ Len(KindLines(Sink, "error")) >= 2
    /\ \E p \in Range(opened) : Mode(p) = "noread"
    /\ \E p \in Range(opened) : Mode(p) = "noopen"
    /\ large_files # <<>>

----------------------------------------------------------------------------
(* C8 *)

ReportLines ==
    [i \in 1..Len(large_files) |->
        [kind |-> "finding", status |-> large_files[i][2],
         count |-> large_files[i][1], path |-> large_files[i][3]]]

\* C8 as stated: the complete output is the header line, a blank line, the
\* Results line and one line per tuple, and nothing else.
C8_Original ==
    pc = "done" =>
        Sink = <<HeaderLine, BlankLine, ResultsLine>> \o ReportLines

\* C8 amended: the complete output is the header line, then one error line
\* per file whose open or read failed, then a blank line, the Results line
\* and one line per tuple, and nothing else.
C8_OutputShape ==
    pc = "done" =>
        /\ Sink = <<HeaderLine>>
                  \o [i \in 1..Len(FailedOpens) |->
                         [kind |-> "error", status |-> "", count |-> 0,
                          path |-> FailedOpens[i]]]
                  \o <<BlankLine, ResultsLine>>
                  \o ReportLines
        /\ OtherSink = <<>>

C8_Witness ==
    /\ pc = "done"
    /\ variant = 2
    /\ Len(KindLines(Sink, "error")) >= 1
    /\ Len(KindLines(Sink, "finding")) >= 2

----------------------------------------------------------------------------
(* C9 *)

C9_State ==
    ResultsEmitted =>
        /\ pc \in {"emit", "done"}
        /\ rootIdx > Len(roots)
        /\ stack = <<>>
        /\ files = <<>>
        /\ handles = <<>>
        /\ Len(large_files) = Len(appended)
        /\ \A i \in 1..(Len(large_files) - 1) :
            large_files[i][1] >= large_files[i + 1][1]

C9_Step ==
    ResultsEmitted =>
        /\ large_files' = large_files
        /\ opened' = opened
        /\ seen' = seen
        /\ walked' = walked

\* C9: once the Results line or a Finding line has been written, every
\* root has been walked to the end, no file is open or left to visit and
\* large_files is sorted; from then on no file is opened or visited and
\* large_files does not change.
C9_Buffered == [](C9_State) /\ [][C9_Step]_vars

C9_Witness ==
    /\ FindingEmitted
    /\ pc = "emit"
    /\ emitIdx <= Len(large_files)
    /\ Len(opened) >= 4

----------------------------------------------------------------------------
(* C10 *)

\* C10: at most one scanned file is open; a handle is open only between
\* the open() of a file and the end of its with block, so none is open
\* when the next file is opened, when the results are emitted or when the
\* run has ended, whether the read succeeded or raised.
C10_OneHandle ==
    /\ Len(handles) <= 1
    /\ pc = "read" => handles = <<join(root, Head(files))>>
    /\ pc # "read" => handles = <<>>

C10_Witness ==
    /\ pc = "done"
    /\ \E p \in Range(opened) : Mode(p) = "noread"
    /\ \E l \in Range(Sink) : l.kind = "error" /\ Mode(l.path) = "noread"
    /\ Len(opened) >= 3

====
